---- MODULE Spec2Model ----
(***************************************************************************)
(* Model of the webhook-to-broadcast pipeline of CampRegistrationBackendHttp *)
(*   src/src/stripe_webhook.rs     StripeEvent extractor, webhook_handler   *)
(*   src/src/websocket_handler.rs  handle_socket (send_task, receive_task)  *)
(*   src/src/database/models.rs    WebSocketConnection::new,                *)
(*                                 PaymentEvent::new                        *)
(* The shared AppState is an Arc<tokio::sync::Mutex<AppState>>; the two     *)
(* tables are reached through diesel; WebSocketService (the client          *)
(* registry) and PaymentIntentStatus live in the lambda_lib crate.          *)
(***************************************************************************)
EXTENDS Naturals, Sequences, FiniteSets

(* ------------------------------ bounds --------------------------------- *)
\* number of socket sessions (calls of handle_socket)
NumConns == 2
\* number of webhook calls (calls of webhook_handler)
NumWebhooks == 2
\* frames read by all sessions together
MaxFrames == 2
\* webhook calls and frames together
MaxInputs == 3

Conns == 1..NumConns
Webhooks == 1..NumWebhooks

(* ------------------------------ values --------------------------------- *)
\* Option::None
None == "None"
\* no guard of the AppState mutex is alive
NoTask == <<"no_task", 0>>
\* the task running webhook call w (extractor and handler)
Wh(w) == <<"webhook", w>>

PaymentIntentIds == {"pi_A", "pi_B"}
\* the identity of the frontend behind connection c: the customer_id it may
\* put in its subscribe frames, and a frontend_id that event metadata may name
Identity(c) == <<"fe_1", "fe_2", "fe_3", "fe_4">>[c]
OptEmail == {None}

\* stripe::EventType values: the payment-intent types (one stands for the
\* nine of the match), and the others
LifecycleTypes == {"payment_intent.succeeded"}
OtherTypes == {"charge.succeeded"}

\* the payment intents that events are about (subscriptions range over all
\* of PaymentIntentIds)
EventPaymentIntentIds == {"pi_A"}

\* the frontend_id that an event's metadata may carry
EventFrontendIds == {Identity(1), None}

\* stripe::Event: its type, its data object and, for a payment intent, the
\* intent's id and metadata["frontend_id"]
Events ==
  {[type |-> t, object |-> "payment_intent", id |-> p, frontend_id |-> f] :
      t \in LifecycleTypes, p \in EventPaymentIntentIds,
      f \in EventFrontendIds}
  \cup {[type |-> t, object |-> "other", id |-> None, frontend_id |-> None] :
      t \in LifecycleTypes}
  \cup {[type |-> t, object |-> "charge", id |-> None, frontend_id |-> None] :
      t \in OtherTypes}

\* the event in the body of a call that is not signed by the provider
ForgedEvent ==
  [type |-> "payment_intent.succeeded", object |-> "payment_intent",
   id |-> "pi_A", frontend_id |-> None]

\* A webhook call as the extractor sees it: the event its body holds, and
\* whether the stripe-signature header is missing, or is there and
\* Webhook::construct_event rejects ("invalid") or accepts ("valid") it.
\* The outcome of construct_event is an input here. (The payload handed to
\* it is read from Request::from_parts(parts.clone(), Body::empty()), lines
\* 57-60, not from the body of the call; which calls the library then
\* accepts is outside this model.)
Requests ==
  {[sig |-> "missing", event |-> ForgedEvent],
   [sig |-> "invalid", event |-> ForgedEvent]}
  \cup {[sig |-> "valid", event |-> e] : e \in Events}

\* A frame as receive_task reads it: the kind of the message, whether its
\* text parses as JSON, and the fields json.get(..).and_then(as_str) finds.
\* The well-formed subscribe frames of connection c: customer_id is optional.
SubscribeFrames(c) ==
  {[kind |-> "text", json |-> TRUE, type |-> "subscribe",
    payment_intent_id |-> p, customer_id |-> cu, customer_email |-> em] :
      p \in PaymentIntentIds, cu \in {Identity(c), None}, em \in OptEmail}

\* The other frames: text that is no JSON, JSON without a type, another
\* type, a subscribe without payment_intent_id, and a binary message.
MalformedFrames ==
  {[kind |-> k, json |-> j, type |-> t, payment_intent_id |-> p,
    customer_id |-> None, customer_email |-> None] :
      <<k, j, t, p>> \in {<<"text", FALSE, None, None>>,
                          <<"text", TRUE, None, "pi_A">>,
                          <<"text", TRUE, "unsubscribe", "pi_A">>,
                          <<"text", TRUE, "subscribe", None>>,
                          <<"binary", FALSE, None, None>>}}

\* the frames connection c may send
Frames(c) == SubscribeFrames(c) \cup MalformedFrames

(* ------------------------------ state ---------------------------------- *)
VARIABLES
  websocket_service, \* AppState.websocket_service is Some
  database_client,   \* AppState.database_client is Some
  appLock,           \* the task whose guard of the AppState mutex is alive
  registry,          \* WebSocketService: {<<payment_intent_id, connection>>}
  websocket_connections, \* table websocket_connections, in insertion order
  payment_events,    \* table payment_events, in insertion order
  pc,                \* webhook call -> its position
  req,               \* webhook call -> its request
  resp,              \* webhook call -> the status code answered
  inserted,          \* webhook call -> payment_events rows it inserted
  queried,           \* webhook call -> it ran the websocket_connections query
  targets,           \* webhook call -> connection_ids the query gave it
  attempted,         \* webhook call -> connections it handed a message for
  session,           \* connection -> "Open" | "Closed" (handle_socket returned)
  rxPc,              \* connection -> position of receive_task
  txPc,              \* connection -> position of send_task
  frame,             \* connection -> the subscribe frame being handled
  frames,            \* frames read so far, by all sessions
  dropped,           \* connection -> frames it read and dropped
  queue,             \* connection -> the unbounded channel's content
  enqueued,          \* connection -> every message ever put on the channel
  written            \* connection -> messages written to the socket

dbVars == <<websocket_connections, payment_events>>
cfgVars == <<websocket_service, database_client>>
whVars == <<pc, req, resp, inserted, queried, targets, attempted>>
rxVars == <<rxPc, frame, frames, dropped>>
chanVars == <<queue, enqueued, written>>
vars == <<websocket_service, database_client, appLock, registry,
          websocket_connections, payment_events, pc, req, resp, inserted,
          queried, targets, attempted, session, rxPc, txPc, frame,
          frames, dropped, queue, enqueued, written>>

(* ------------------------------ helpers -------------------------------- *)
\* what a statement on a table comes to: get_conn fails ("no_connection"),
\* execute / load returns Err ("error"), or it is carried out ("ok")
DbResults == {"ok", "no_connection", "error"}

\* uuid::Uuid::new_v4().to_string(): one fresh token per handle_socket call
connection_id(c) == c

\* lambda_lib: PaymentIntentStatus::try_from(EventType).to_string(); None is Err
PaymentIntentStatus(t) ==
  IF t = "payment_intent.succeeded" THEN "succeeded" ELSE None

\* the arms of `match stripe_event.type_` that name the payment-intent types
IsPaymentIntentType(t) == t \in LifecycleTypes

\* mutant: the data object is not looked at
AnyObject(o) == TRUE

\* `if let EventObject::PaymentIntent(..) = stripe_event.data.object`
IsPaymentIntentObject(o) == o = "payment_intent"

\* mutant: only the presence of the header is checked
VerifiedHeaderOnly(r) == r.sig # "missing"

\* from_request_parts, lines 42-79: the header is there, and construct_event
\* returns Ok
Verified(r) == r.sig # "missing" /\ r.sig # "invalid"

\* StatusCode::BAD_REQUEST, StatusCode::OK
BAD_REQUEST == "400 Bad Request"
OK == "200 OK"

\* mutant: an event whose row is already stored is not stored again
InsertDeduplicated(table, row) ==
  IF \E i \in 1..Len(table) : table[i] = row THEN table ELSE Append(table, row)

\* diesel::insert_into(payment_events::table).values(&payment_event)
InsertPaymentEvent(table, row) == Append(table, row)

\* mutant: with no row found the message goes to every connection
BroadcastToAll(reg, payment_intent_id) == Conns

\* webhook_handler, lines 265-270: with no row found the handler logs
\* "No active connections found" and hands the message to nobody
NoConnectionsRecipients(reg, payment_intent_id) == {}

\* mutant: the newest message is taken
NewestMessage(q) == q[Len(q)]

\* send_task: `rx.recv().await` takes the oldest message of the channel
NextMessage(q) == Head(q)

\* mutant: the payment_intent_id of a subscribe is not looked for
SubscribeTypeOnly(f) == f.kind = "text" /\ f.json /\ f.type = "subscribe"

\* receive_task, lines 55-62: the message is Text, the text is JSON, its
\* "type" is the string "subscribe" and it has a string "payment_intent_id"
SubscribeRequest(f) ==
  /\ f.kind = "text"
  /\ f.json
  /\ f.type = "subscribe"
  /\ f.payment_intent_id # None

\* tokio::sync::Mutex::lock().await completes only while no guard is alive
LockFree(holder) == holder = NoTask

\* mutant: the two Option<String> arguments change places
SwappedConnection(payment_intent_id, conn_id, customer_id, customer_email) ==
  [payment_intent_id |-> payment_intent_id, connection_id |-> conn_id,
   customer_id |-> customer_email, customer_email |-> customer_id,
   status |-> "active"]

\* WebSocketConnection::new
WebSocketConnection(payment_intent_id, conn_id, customer_id, customer_email) ==
  [payment_intent_id |-> payment_intent_id, connection_id |-> conn_id,
   customer_id |-> customer_id, customer_email |-> customer_email,
   status |-> "active"]

\* PaymentEvent::new (amount, currency and customer are carried through
\* unchanged from the payment intent and are not modelled)
PaymentEvent(payment_intent_id, status, metadata) ==
  [payment_intent_id |-> payment_intent_id, status |-> status,
   metadata |-> metadata]

\* json!({"type": "subscription_confirmed", ...})
Confirmation(payment_intent_id) ==
  [type |-> "subscription_confirmed", payment_intent_id |-> payment_intent_id,
   status |-> None, frontend_id |-> None]

\* json!({"type": "payment_update", ...})
PaymentUpdate(payment_intent_id, status, frontend_id) ==
  [type |-> "payment_update", payment_intent_id |-> payment_intent_id,
   status |-> status, frontend_id |-> frontend_id]

\* mutant: the filter on status is left out
ConnectionsOfAnyStatus(table, payment_intent_id, frontend_id) ==
  SelectSeq(table, LAMBDA r :
    /\ r.payment_intent_id = payment_intent_id
    /\ (frontend_id # None => r.customer_id = frontend_id))

\* websocket_connections.filter(payment_intent_id.eq(..))
\*   .filter(status.eq("active"))
\* and, with a frontend_id, .filter(customer_id.eq(frontend_identifier))
ActiveConnections(table, payment_intent_id, frontend_id) ==
  SelectSeq(table, LAMBDA r :
    /\ r.payment_intent_id = payment_intent_id
    /\ r.status = "active"
    /\ (frontend_id # None => r.customer_id = frontend_id))

\* connections.iter().map(|conn| conn.connection_id.clone()).collect()
ConnectionIds(rows) == [i \in 1..Len(rows) |-> rows[i].connection_id]

\* mutant: the rows of the connection are deleted
DeleteRows(table, conn_id) ==
  SelectSeq(table, LAMBDA r : r.connection_id # conn_id)

\* diesel::update(websocket_connections.filter(
\*     connection_id.eq(connection_id.clone()))).set(status.eq("inactive"))
\* Inside the block that holds `use ...websocket_connections::dsl::*`
\* (websocket_handler.rs:144) the name connection_id is the column on both
\* sides (the String of line 46 has no .eq taking a String by value), so the
\* filter compares the column with itself and holds of every row: conn_id
\* does not reach the statement.
SetInactive(table, conn_id) ==
  [i \in 1..Len(table) |-> [table[i] EXCEPT !.status = "inactive"]]

Range(seq) == {seq[i] : i \in 1..Len(seq)}

\* the receiving end of connection c's channel is alive while send_task runs
ReceiverAlive(tx, c) == tx[c] = "recv"

\* WebSocketService::register_client(payment_intent_id, tx.clone())
register_client(reg, payment_intent_id, c) ==
  reg \cup {<<payment_intent_id, c>>}

\* WebSocketService::send_message_to_clients(payment_intent_id, message, ids):
\* the connections registered under payment_intent_id whose id is in ids
Recipients(reg, payment_intent_id, ids) ==
  {c \in Conns : /\ <<payment_intent_id, c>> \in reg
                 /\ connection_id(c) \in Range(ids)}

\* mutant: the guard of line 202 is dropped before line 250
GuardDroppedBeforeSend(w) == NoTask

\* The guard taken by `let db_client = &state.lock().await.database_client`
\* (stripe_webhook.rs:202) is a temporary whose life is extended to the end of
\* the enclosing block (line 278): it is still alive at line 250.
GuardAtSend(w) == Wh(w)

(* ------------------------------- Init ---------------------------------- *)
Init ==
  /\ websocket_service = TRUE  \* main.rs: websocket_service: Some(..)
  /\ database_client = TRUE   \* main.rs: database_client: Some(db_pool)
  /\ appLock = NoTask
  /\ registry = {}
  /\ websocket_connections = <<>>
  /\ payment_events = <<>>
  /\ pc = [w \in Webhooks |-> "idle"]
  /\ req = [w \in Webhooks |-> None]
  /\ resp = [w \in Webhooks |-> None]
  /\ inserted = [w \in Webhooks |-> 0]
  /\ queried = [w \in Webhooks |-> FALSE]
  /\ targets = [w \in Webhooks |-> <<>>]
  /\ attempted = [w \in Webhooks |-> {}]
  /\ session = [c \in Conns |-> "Open"]
  /\ rxPc = [c \in Conns |-> "next"]
  /\ txPc = [c \in Conns |-> "recv"]
  /\ frame = [c \in Conns |-> None]
  /\ frames = 0
  /\ dropped = [c \in Conns |-> 0]
  /\ queue = [c \in Conns |-> <<>>]
  /\ enqueued = [c \in Conns |-> <<>>]
  /\ written = [c \in Conns |-> <<>>]

\* webhook calls received and frames read so far
Inputs == Cardinality({w \in Webhooks : pc[w] # "idle"}) + frames

(* --------------------------- webhook calls ----------------------------- *)
\* POST /webhook arrives
WhReceive(w) ==
  /\ pc[w] = "idle"
  /\ Inputs < MaxInputs
  /\ \E r \in Requests : req' = [req EXCEPT ![w] = r]
  /\ pc' = [pc EXCEPT ![w] = "extract"]
  /\ UNCHANGED <<cfgVars, appLock, registry, dbVars, resp, inserted, queried,
                 targets, attempted, session, rxVars, txPc, chanVars>>

\* StripeEvent::from_request_parts: read the secret under the lock, then the
\* header and Webhook::construct_event; any failure answers 400
from_request_parts(w) ==
  /\ pc[w] = "extract"
  /\ LockFree(appLock)
  /\ IF Verified(req[w])
       THEN /\ pc' = [pc EXCEPT ![w] = "handler"]
            /\ UNCHANGED resp
       ELSE /\ pc' = [pc EXCEPT ![w] = "done"]
            /\ resp' = [resp EXCEPT ![w] = BAD_REQUEST]
  /\ UNCHANGED <<cfgVars, appLock, registry, dbVars, req, inserted, queried,
                 targets, attempted, session, rxVars, txPc, chanVars>>

\* webhook_handler, lines 125-185 and 280-295: an event that is no
\* payment-intent event with a payment-intent object is acknowledged; for the
\* others the payment event is inserted (a missing client, a failed get_conn
\* and a failed insert are logged)
WhPersist(w) ==
  /\ pc[w] = "handler"
  /\ LET e == req[w].event
         row == PaymentEvent(e.id, PaymentIntentStatus(e.type), e.frontend_id)
     IN IF /\ PaymentIntentStatus(e.type) # None
           /\ IsPaymentIntentType(e.type)
           /\ IsPaymentIntentObject(e.object)
          THEN /\ LockFree(appLock)
               /\ \E db \in DbResults :
                    IF database_client /\ db = "ok"
                      THEN /\ payment_events' =
                                InsertPaymentEvent(payment_events, row)
                           /\ inserted' = [inserted EXCEPT ![w] = @ + 1]
                      ELSE UNCHANGED <<payment_events, inserted>>
               /\ pc' = [pc EXCEPT ![w] = "notify"]
               /\ UNCHANGED resp
          ELSE /\ pc' = [pc EXCEPT ![w] = "done"]
               /\ resp' = [resp EXCEPT ![w] = OK]
               /\ UNCHANGED <<payment_events, inserted>>
  /\ UNCHANGED <<cfgVars, appLock, registry, websocket_connections, req,
                 queried, targets, attempted, session, rxVars, txPc, chanVars>>

\* The registry hands message to the channels of the connections in to:
\* a channel whose receiving end is gone fails and is removed
Deliver(w, payment_intent_id, message, to) ==
  LET live == {c \in to : ReceiverAlive(txPc, c)} IN
  /\ attempted' = [attempted EXCEPT ![w] = to]
  /\ queue' = [c \in Conns |->
       IF c \in live THEN Append(queue[c], message) ELSE queue[c]]
  /\ enqueued' = [c \in Conns |->
       IF c \in live THEN Append(enqueued[c], message) ELSE enqueued[c]]
  /\ registry' = registry \ {<<payment_intent_id, c>> : c \in to \ live}

\* webhook_handler, lines 187-277: take the lock, query the active
\* connections, and with at least one row take the lock again (line 250) to
\* hand the message to send_message_to_clients
WhNotify(w) ==
  /\ pc[w] = "notify"
  /\ LockFree(appLock)
  /\ LET e == req[w].event
         message ==
           PaymentUpdate(e.id, PaymentIntentStatus(e.type), e.frontend_id)
     IN \E db \in DbResults :
          LET ran == database_client /\ db # "no_connection"
              connections ==
                IF ran /\ db = "ok"
                  THEN ActiveConnections(websocket_connections, e.id,
                                         e.frontend_id)
                  ELSE <<>>
              connection_ids == ConnectionIds(connections)
          IN /\ queried' = [queried EXCEPT ![w] = ran]
             /\ targets' = [targets EXCEPT ![w] = connection_ids]
             /\ IF connections = <<>>
                  THEN \* the block ends, the guard is dropped
                       /\ Deliver(w, e.id, message,
                                  NoConnectionsRecipients(registry, e.id))
                       /\ pc' = [pc EXCEPT ![w] = "done"]
                       /\ resp' = [resp EXCEPT ![w] = OK]
                       /\ UNCHANGED appLock
                  ELSE IF LockFree(GuardAtSend(w))
                    THEN /\ Deliver(w, e.id, message,
                              IF websocket_service
                                THEN Recipients(registry, e.id, connection_ids)
                                ELSE {})
                         /\ pc' = [pc EXCEPT ![w] = "done"]
                         /\ resp' = [resp EXCEPT ![w] = OK]
                         /\ UNCHANGED appLock
                    ELSE \* state.lock().await at line 250 while the guard of
                         \* line 202 is alive
                         /\ pc' = [pc EXCEPT ![w] = "await_lock"]
                         /\ appLock' = GuardAtSend(w)
                         /\ UNCHANGED <<resp, attempted, queue, enqueued,
                                         registry>>
  /\ UNCHANGED <<cfgVars, dbVars, req, inserted, session, rxVars, txPc,
                 written>>

(* --------------------------- socket sessions --------------------------- *)
\* receive_task, lines 54-75: a well-formed subscribe frame is read; the task
\* waits for the AppState lock and under it registers its channel
RxSubscribe(c) ==
  /\ rxPc[c] = "next"
  /\ frames < MaxFrames
  /\ Inputs < MaxInputs
  /\ frames' = frames + 1
  /\ \E f \in Frames(c) :
       /\ SubscribeRequest(f)
       /\ frame' = [frame EXCEPT ![c] = f]
       /\ IF LockFree(appLock)
            THEN /\ registry' =
                      IF websocket_service
                        THEN register_client(registry, f.payment_intent_id, c)
                        ELSE registry
                 /\ rxPc' = [rxPc EXCEPT ![c] = "insert"]
            ELSE /\ rxPc' = [rxPc EXCEPT ![c] = "lock"]
                 /\ UNCHANGED registry
  /\ UNCHANGED dropped
  /\ UNCHANGED <<cfgVars, appLock, dbVars, whVars, session, txPc, chanVars>>

\* receive_task, lines 55-60 and 126-129: any other frame is dropped
RxMalformed(c) ==
  /\ rxPc[c] = "next"
  /\ frames < MaxFrames
  /\ Inputs < MaxInputs
  /\ \E f \in Frames(c) : ~SubscribeRequest(f)
  /\ frames' = frames + 1
  /\ dropped' = [dropped EXCEPT ![c] = @ + 1]
  /\ UNCHANGED <<cfgVars, appLock, registry, dbVars, whVars, session, rxPc,
                 frame, txPc, chanVars>>

\* receive_task, line 54: the stream ends or yields an error
RxClosed(c) ==
  /\ rxPc[c] = "next"
  /\ rxPc' = [rxPc EXCEPT ![c] = "done"]
  /\ UNCHANGED <<cfgVars, appLock, registry, dbVars, whVars, session, txPc,
                 frame, frames, dropped, chanVars>>

\* mutant: the subscription is confirmed only when its row was saved
ConfirmOnlyIfSaved(db) == IF db = "ok" THEN "confirm" ELSE "next"

\* receive_task, lines 96-113: the arms Ok, Err and the else of get_conn only
\* log, and all three go on to the confirmation
AfterInsert(db) == "confirm"

\* receive_task, lines 78-111: insert the websocket_connections row; a failed
\* get_conn and a failed insert are logged
RxInsert(c) ==
  /\ rxPc[c] = "insert"
  /\ LET ws_conn == WebSocketConnection(frame[c].payment_intent_id,
                      connection_id(c), frame[c].customer_id,
                      frame[c].customer_email)
     IN \E db \in DbResults :
          /\ websocket_connections' =
               IF db = "ok"
                 THEN Append(websocket_connections, ws_conn)
                 ELSE websocket_connections
          /\ rxPc' = [rxPc EXCEPT ![c] = AfterInsert(db)]
  /\ UNCHANGED <<cfgVars, appLock, registry, payment_events, whVars, session,
                 txPc, frame, frames, dropped, chanVars>>

\* receive_task, lines 113-123: send the confirmation on the own channel; the
\* loop ends when the receiving end is gone (as it is once send_task has
\* ended or was aborted)
RxConfirm(c) ==
  /\ rxPc[c] = "confirm"
  /\ LET confirmation == Confirmation(frame[c].payment_intent_id) IN
     IF ReceiverAlive(txPc, c)
       THEN /\ queue' = [queue EXCEPT ![c] = Append(@, confirmation)]
            /\ enqueued' = [enqueued EXCEPT ![c] = Append(@, confirmation)]
            /\ rxPc' = [rxPc EXCEPT ![c] = "next"]
       ELSE /\ rxPc' = [rxPc EXCEPT ![c] = "done"]
            /\ UNCHANGED <<queue, enqueued>>
  /\ frame' = [frame EXCEPT ![c] = None]
  /\ UNCHANGED <<cfgVars, appLock, registry, dbVars, whVars, session, txPc,
                 frames, dropped, written>>

\* send_task, lines 34-42: take the next message and write it to the socket;
\* a failed write ends the task (and drops the receiving end)
TxWrite(c) ==
  /\ txPc[c] = "recv"
  /\ queue[c] # <<>>
  /\ \/ /\ written' = [written EXCEPT ![c] = Append(@, NextMessage(queue[c]))]
        /\ queue' = [queue EXCEPT ![c] = Tail(@)]
        /\ UNCHANGED txPc
     \/ /\ txPc' = [txPc EXCEPT ![c] = "done"]
        /\ queue' = [queue EXCEPT ![c] = <<>>]
        /\ UNCHANGED written
  /\ UNCHANGED <<cfgVars, appLock, registry, dbVars, whVars, session, rxVars,
                 enqueued>>

\* send_task, line 34: rx.recv() yields None once the channel is empty and
\* every sender (receive_task's tx, the registry's clones) is dropped
TxChannelClosed(c) ==
  /\ txPc[c] = "recv"
  /\ queue[c] = <<>>
  /\ rxPc[c] = "done"
  /\ \A p \in PaymentIntentIds : <<p, c>> \notin registry
  /\ txPc' = [txPc EXCEPT ![c] = "done"]
  /\ UNCHANGED <<cfgVars, appLock, registry, dbVars, whVars, session, rxVars,
                 chanVars>>

\* receive_task.abort(): a task suspended at an await (receiver.next(), or
\* state.lock() while a guard is alive) is dropped; a task that is running
\* goes on to its next await
AbortReceive(rx, lock) ==
  IF rx = "next" \/ (rx = "lock" /\ ~LockFree(lock)) THEN "done" ELSE rx

\* send_task.abort(): the task is dropped, and the receiving end with it
AbortSend(tx) == "done"

\* mutant: a cleanup that failed has removed the rows
CleanupFailureClearsRows(table, conn_id, db) ==
  IF db = "ok" THEN SetInactive(table, conn_id) ELSE <<>>

\* handle_socket, lines 143-155: the update is carried out only when get_conn
\* and execute both return Ok; otherwise the table is left as it is
CleanupUpdate(table, conn_id, db) ==
  IF db = "ok" THEN SetInactive(table, conn_id) ELSE table

\* handle_socket, lines 133-155: when one task has ended abort the other, then
\* run the cleanup update; a failed get_conn and a failed update are logged
Teardown(c) ==
  /\ session[c] = "Open"
  /\ txPc[c] = "done" \/ rxPc[c] = "done"
  /\ rxPc' = [rxPc EXCEPT ![c] = AbortReceive(@, appLock)]
  /\ frame' = [frame EXCEPT ![c] = IF rxPc'[c] = "done" THEN None ELSE @]
  /\ txPc' = [txPc EXCEPT ![c] = AbortSend(@)]
  /\ queue' = [queue EXCEPT ![c] = <<>>]
  /\ \E db \in DbResults :
       /\ websocket_connections' =
            CleanupUpdate(websocket_connections, connection_id(c), db)
  /\ session' = [session EXCEPT ![c] = "Closed"]
  /\ UNCHANGED <<cfgVars, appLock, registry, payment_events, whVars, frames,
                 dropped, enqueued, written>>

(* ------------------------------- Next ---------------------------------- *)
Webhook(w) ==
  \/ WhReceive(w)
  \/ from_request_parts(w)
  \/ WhPersist(w)
  \/ WhNotify(w)

SendTask(c) == TxWrite(c) \/ TxChannelClosed(c)

ReceiveTask(c) ==
  \/ RxSubscribe(c)
  \/ RxMalformed(c)
  \/ RxClosed(c)
  \/ RxInsert(c)
  \/ RxConfirm(c)

Next ==
  \/ \E w \in Webhooks : Webhook(w)
  \/ \E c \in Conns : SendTask(c) \/ ReceiveTask(c) \/ Teardown(c)

Spec == Init /\ [][Next]_vars

\* The tokio scheduler runs every task that can run, and the tokio mutex is
\* handed to its waiters in order: each step of a task that stays possible is
\* taken. What the peers do (a call arrives, a frame is sent, the socket is
\* closed) is not forced.
Fairness ==
  /\ \A w \in Webhooks :
       /\ WF_vars(from_request_parts(w))
       /\ WF_vars(WhPersist(w))
       /\ WF_vars(WhNotify(w))
  /\ \A c \in Conns :
       /\ WF_vars(RxInsert(c))
       /\ WF_vars(RxConfirm(c))
       /\ WF_vars(TxWrite(c))
       /\ WF_vars(TxChannelClosed(c))
       /\ WF_vars(Teardown(c))

FairSpec == Spec /\ Fairness

(* ------------------------------ properties ----------------------------- *)
IsPrefix(s, t) == Len(s) <= Len(t) /\ \A i \in 1..Len(s) : s[i] = t[i]

\* the call has been received
Received(w) == pc[w] # "idle"

\* the signature and the event of call w, once it is received
SigOf(w) == IF Received(w) THEN req[w].sig ELSE None

EventOf(w) ==
  IF Received(w) THEN req[w].event
  ELSE [type |-> None, object |-> None, id |-> None, frontend_id |-> None]

\* the event of call w is one the handler dispatches
Dispatchable(w) ==
  /\ Received(w)
  /\ SigOf(w) = "valid"
  /\ EventOf(w).type \in LifecycleTypes
  /\ EventOf(w).object = "payment_intent"

\* the payment_update that call w builds
UpdateOf(w) ==
  PaymentUpdate(EventOf(w).id, PaymentIntentStatus(EventOf(w).type),
                EventOf(w).frontend_id)

\* C1: a webhook call whose signature header is missing, or whose signature
\* and body fail verification, is answered 400 Bad Request (never 200, and it
\* never reaches the handler), inserts no payment_events row, runs no
\* websocket_connections query and hands no message to any connection.
C1_UnverifiedCallRejected ==
  \A w \in Webhooks :
    (Received(w) /\ SigOf(w) \in {"missing", "invalid"}) =>
      /\ pc[w] \in {"extract", "done"}
      /\ (pc[w] = "done") <=> (resp[w] = BAD_REQUEST)
      /\ resp[w] \in {None, BAD_REQUEST}
      /\ inserted[w] = 0
      /\ ~queried[w]
      /\ attempted[w] = {}

\* C1 witness: a call without the header and a call with a bad signature
\* have both been answered 400 while a connection holds an active
\* subscription to the payment intent their bodies name.
C1_Witness ==
  \E w \in Webhooks, v \in Webhooks, i \in 1..Len(websocket_connections) :
    /\ pc[w] = "done" /\ SigOf(w) = "missing" /\ resp[w] = BAD_REQUEST
    /\ pc[v] = "done" /\ SigOf(v) = "invalid" /\ resp[v] = BAD_REQUEST
    /\ websocket_connections[i].payment_intent_id = EventOf(w).id
    /\ websocket_connections[i].status = "active"

\* C2: every webhook call whose signature verification succeeded is
\* eventually answered 200 OK.
C2_VerifiedCallAnswered ==
  \A w \in Webhooks : (pc[w] = "handler") ~> (resp[w] = OK)

\* connection c is registered under pid, holds an active row for it, and its
\* session and both of its tasks are running
Subscribed(c, pid) ==
  /\ session[c] = "Open"
  /\ ReceiverAlive(txPc, c)
  /\ <<pid, c>> \in registry
  /\ \E i \in 1..Len(websocket_connections) :
       /\ websocket_connections[i].connection_id = connection_id(c)
       /\ websocket_connections[i].payment_intent_id = pid
       /\ websocket_connections[i].status = "active"

\* the subscriber identity recorded in connection c's rows is id
RecordedIdentity(c, id) ==
  \A i \in 1..Len(websocket_connections) :
    websocket_connections[i].connection_id = connection_id(c) =>
      websocket_connections[i].customer_id = id

\* connection c has gone, or call w found the lookup unusable or empty
Excused(w, c) ==
  \/ session[c] # "Open"
  \/ ~ReceiverAlive(txPc, c)
  \/ pc[w] = "done" /\ targets[w] = <<>>

\* C3: with two open sessions that hold active subscriptions to the same
\* payment intent under different identities, the lookup of a verified
\* payment-intent event naming the identity of connection 1 ends with the
\* event's payment_update on connection 1's channel and not on connection
\* 2's, unless the lookup could not be used.
C3_TargetedDelivery ==
  [][\A w \in Webhooks :
       (/\ pc[w] = "notify" /\ pc'[w] # "notify"
        /\ EventOf(w).frontend_id = Identity(1)
        /\ \A c \in Conns :
             /\ Subscribed(c, EventOf(w).id)
             /\ RecordedIdentity(c, Identity(c))
        /\ targets'[w] # <<>>)
         => /\ UpdateOf(w) \in Range(enqueued'[1])
            /\ \A c \in Conns \ {1} :
                 UpdateOf(w) \notin Range(enqueued'[c])]_vars

\* C4: for a session that has processed a subscribe frame for a payment intent
\* and is still open, a verified payment-intent event for it that names no
\* identity leads to its payment_update being put on that connection's
\* channel, whether the subscription recorded an identity or not.
C4_UnfilteredDelivery ==
  \A w \in Webhooks, c \in Conns :
    (/\ pc[w] = "notify"
     /\ EventOf(w).frontend_id = None
     /\ Subscribed(c, EventOf(w).id))
      ~> (UpdateOf(w) \in Range(enqueued[c]) \/ Excused(w, c))

\* no row of connection c is active
NoActiveRow(c) ==
  \A i \in 1..Len(websocket_connections) :
    websocket_connections[i].connection_id = connection_id(c) =>
      websocket_connections[i].status # "active"

\* C5: once a session is Closed and none of its rows is active, none of its
\* rows is active ever after (so no later query for active subscriptions
\* returns it), also when the teardown cancelled receive_task in the middle
\* of a subscribe frame.
C5_ClosedStaysInactive ==
  [][\A c \in Conns :
       (session[c] = "Closed" /\ NoActiveRow(c)) => NoActiveRow(c)']_vars

\* C6: when the lookup of call w cannot be used or returns no rows, the
\* message is broadcast by payment intent: every connection registered under
\* the event's payment intent whose channel is open has the payment_update
\* on its channel when the lookup ends.
C6_FallbackBroadcast ==
  [][\A w \in Webhooks :
       (pc[w] = "notify" /\ pc'[w] = "done" /\ targets'[w] = <<>>) =>
         \A c \in Conns :
           (<<EventOf(w).id, c>> \in registry /\ ReceiverAlive(txPc, c)) =>
             UpdateOf(w) \in Range(enqueued'[c])]_vars

\* C7: a call whose payment_events insert failed still goes on to the lookup
\* and the delivery, and is answered 200.
C7_InsertFailureStillDispatches ==
  \A w \in Webhooks :
    (pc[w] = "notify" /\ inserted[w] = 0)
      ~> (pc[w] = "done" /\ resp[w] = OK
          /\ (targets[w] # <<>> =>
                Recipients(registry, EventOf(w).id, targets[w])
                  \subseteq attempted[w]))

\* C8: payment_events is append-only and not deduplicated: a step changes the
\* table only by appending the one row of a call whose insert succeeded, an
\* insert that succeeds always appends, and the rows already there stay.
C8_AppendOnlyNoDedup ==
  [][/\ IsPrefix(payment_events, payment_events')
     /\ \A w \in Webhooks :
          inserted'[w] # inserted[w] =>
            /\ inserted'[w] = inserted[w] + 1
            /\ Len(payment_events') = Len(payment_events) + 1
            /\ payment_events'[Len(payment_events')] =
                 PaymentEvent(EventOf(w).id,
                              PaymentIntentStatus(EventOf(w).type),
                              EventOf(w).frontend_id)
     /\ (\A w \in Webhooks : inserted'[w] = inserted[w]) =>
          payment_events' = payment_events]_vars

\* C8 witness: two deliveries with identical content have left two rows.
C8_Witness ==
  /\ Len(payment_events) = 2
  /\ payment_events[1] = payment_events[2]
  /\ \E w \in Webhooks, v \in Webhooks :
       w # v /\ inserted[w] = 1 /\ inserted[v] = 1 /\ req[w] = req[v]

\* C9: a call with a valid signature whose event type is no payment-intent
\* type, or whose data object is no payment intent, is answered 200 and has
\* no dispatch effect: no payment_events row, no websocket_connections query,
\* no message handed to any connection.
C9_OtherEventsAcknowledged ==
  \A w \in Webhooks :
    (Received(w) /\ SigOf(w) = "valid" /\ ~Dispatchable(w)) =>
      /\ pc[w] \in {"extract", "handler", "done"}
      /\ (pc[w] = "done") <=> (resp[w] = OK)
      /\ resp[w] \in {None, OK}
      /\ inserted[w] = 0
      /\ ~queried[w]
      /\ attempted[w] = {}

\* C9 witness: a charge event and a payment-intent-typed event that carries
\* another object have both been answered 200, while a connection holds an
\* active subscription.
C9_Witness ==
  \E w \in Webhooks, v \in Webhooks :
    /\ pc[w] = "done" /\ SigOf(w) = "valid" /\ resp[w] = OK
    /\ EventOf(w).type \in OtherTypes
    /\ pc[v] = "done" /\ SigOf(v) = "valid" /\ resp[v] = OK
    /\ EventOf(v).type \in LifecycleTypes
    /\ EventOf(v).object # "payment_intent"
    /\ \E i \in 1..Len(websocket_connections) :
         websocket_connections[i].status = "active"

\* C10: per connection, what send_task has written to the socket is a prefix
\* of what was put on the connection's channel, in the order it was put there.
C10_SocketFifo ==
  \A c \in Conns : IsPrefix(written[c], enqueued[c])

\* C10 witness: two different messages were put on one connection's channel
\* before either was written, and both have been written.
C10_Witness ==
  \E c \in Conns :
    /\ Len(written[c]) = 2
    /\ written[c][1] # written[c][2]
    /\ written[c] = enqueued[c]

\* the rows of connection c, in insertion order
RowsOf(table, c) ==
  SelectSeq(table, LAMBDA r : r.connection_id = connection_id(c))

\* the subscription confirmations put on connection c's channel so far
ConfirmationsOf(c) ==
  SelectSeq(enqueued[c], LAMBDA m : m.type = "subscription_confirmed")

\* C11: on a well-formed subscribe frame receive_task first registers the
\* connection's channel under the frame's payment intent, then inserts one
\* active row carrying the connection id and the frame's customer_id and
\* customer_email, then puts one subscription_confirmed message for that
\* payment intent on its own channel: each of the three happens only at its
\* place in this order, and with these contents.
C11_SubscribeOrder ==
  [][\A c \in Conns :
       /\ (\E p \in PaymentIntentIds \cup {None} :
             <<p, c>> \in registry' \ registry) =>
            /\ rxPc[c] = "next" /\ rxPc'[c] = "insert"
            /\ registry' = registry \cup {<<frame'[c].payment_intent_id, c>>}
            /\ websocket_connections' = websocket_connections
            /\ enqueued' = enqueued
       /\ rxPc'[c] = "insert" /\ rxPc[c] # "insert" =>
            <<frame'[c].payment_intent_id, c>> \in registry'
       /\ RowsOf(websocket_connections', c) # RowsOf(websocket_connections, c)
          /\ Len(websocket_connections') > Len(websocket_connections) =>
            /\ rxPc[c] = "insert" /\ rxPc'[c] = "confirm"
            /\ <<frame[c].payment_intent_id, c>> \in registry
            /\ websocket_connections' = Append(websocket_connections,
                 [payment_intent_id |-> frame[c].payment_intent_id,
                  connection_id |-> connection_id(c),
                  customer_id |-> frame[c].customer_id,
                  customer_email |-> frame[c].customer_email,
                  status |-> "active"])
            /\ ConfirmationsOf(c)' = ConfirmationsOf(c)
       /\ ConfirmationsOf(c)' # ConfirmationsOf(c) =>
            /\ rxPc[c] = "confirm" /\ rxPc'[c] = "next"
            /\ enqueued'[c] = Append(enqueued[c],
                 [type |-> "subscription_confirmed",
                  payment_intent_id |-> frame[c].payment_intent_id,
                  status |-> None, frontend_id |-> None])
            /\ websocket_connections' = websocket_connections
            /\ registry' = registry]_vars

\* C11 witness: a connection has been registered, has its active row with
\* the identity of its frame, and has its confirmation on its channel.
C11_Witness ==
  \E c \in Conns, p \in PaymentIntentIds :
    /\ rxPc[c] = "next"
    /\ <<p, c>> \in registry
    /\ Len(RowsOf(websocket_connections, c)) = 1
    /\ RowsOf(websocket_connections, c)[1] =
         [payment_intent_id |-> p, connection_id |-> connection_id(c),
          customer_id |-> Identity(c), customer_email |-> None,
          status |-> "active"]
    /\ ConfirmationsOf(c) = <<Confirmation(p)>>

\* C12: a frame that is no well-formed subscribe (text that is no JSON, JSON
\* without a type, another type, a subscribe without payment_intent_id, a
\* message that is no text) is dropped without any effect: the session stays
\* Open, receive_task stays ready for the next frame, no registry entry, no
\* row and no message comes of it; and only a text frame that is JSON of
\* type subscribe with a payment_intent_id is ever taken up.
C12_MalformedIgnored ==
  [][\A c \in Conns :
       /\ dropped'[c] # dropped[c] =>
            /\ session[c] = "Open" /\ session' = session
            /\ rxPc[c] = "next" /\ rxPc' = rxPc
            /\ txPc' = txPc
            /\ registry' = registry
            /\ websocket_connections' = websocket_connections
            /\ payment_events' = payment_events
            /\ queue' = queue /\ enqueued' = enqueued /\ written' = written
       /\ rxPc[c] = "next" /\ rxPc'[c] \in {"insert", "lock"} =>
            /\ dropped' = dropped
            /\ frame'[c].kind = "text"
            /\ frame'[c].json
            /\ frame'[c].type = "subscribe"
            /\ frame'[c].payment_intent_id \in PaymentIntentIds]_vars

\* C12 witness: a connection that has dropped a frame is Open and is
\* handling a well-formed subscribe frame it read afterwards.
C12_Witness ==
  \E c \in Conns :
    /\ dropped[c] > 0
    /\ session[c] = "Open"
    /\ rxPc[c] = "confirm"
    /\ Len(RowsOf(websocket_connections, c)) = 1
    /\ ConfirmationsOf(c) = <<>>

\* C13: every websocket_connections row is active or inactive; a row is
\* created active; a row changes only in its status, only from active to
\* inactive and only in the teardown of a session; no row goes back to
\* active and no row is deleted.
C13_StatusTransitions ==
  [][/\ Len(websocket_connections') >= Len(websocket_connections)
     /\ \A i \in 1..Len(websocket_connections') :
          websocket_connections'[i].status \in {"active", "inactive"}
     /\ \A i \in 1..Len(websocket_connections) :
          \/ websocket_connections'[i] = websocket_connections[i]
          \/ /\ websocket_connections[i].status = "active"
             /\ websocket_connections'[i] =
                  [websocket_connections[i] EXCEPT !.status = "inactive"]
             /\ \E c \in Conns : session[c] = "Open" /\ session'[c] = "Closed"
     /\ \A i \in (Len(websocket_connections) + 1)
                   ..Len(websocket_connections') :
          websocket_connections'[i].status = "active"]_vars

\* C13 witness: a row was created active and set inactive by a teardown, and
\* a row created later is active.
C13_Witness ==
  /\ Len(websocket_connections) = 2
  /\ websocket_connections[1].status = "inactive"
  /\ websocket_connections[2].status = "active"
  /\ \E c \in Conns : session[c] = "Closed"

\* C14: once a session has started its teardown (handle_socket has aborted
\* the other task and issued the cleanup update) its receive_task registers
\* nothing, inserts no row and confirms nothing any more, and its send_task
\* writes nothing more to the socket.
C14_NoWorkAfterTeardown ==
  [][\A c \in Conns :
       session[c] = "Closed" =>
         /\ \A p \in PaymentIntentIds :
              <<p, c>> \in registry' => <<p, c>> \in registry
         /\ Len(RowsOf(websocket_connections', c)) =
              Len(RowsOf(websocket_connections, c))
         /\ ConfirmationsOf(c)' = ConfirmationsOf(c)
         /\ written'[c] = written[c]]_vars

\* C15: when every session has completed a subscribe frame for the same
\* payment intent (each is registered and holds an active row), a dispatch
\* for that payment intent that resolves all their distinct connection ids
\* ends with the payment_update on the channel of each of them.
C15_ConcurrentRegistrations ==
  [][\A w \in Webhooks :
       (/\ pc[w] = "notify" /\ pc'[w] # "notify"
        /\ EventOf(w).frontend_id = None
        /\ \A c \in Conns :
             rxPc[c] = "next" /\ Subscribed(c, EventOf(w).id)
        /\ Range(targets'[w]) = {connection_id(c) : c \in Conns})
         => \A c \in Conns : UpdateOf(w) \in Range(enqueued'[c])]_vars

\* C16: a registration is made to wait only by work on the same payment
\* intent: a session that waits for the lock in front of register_client
\* waits for a dispatch that is about the payment intent of its own frame.
C16_IndependentAcrossTransactions ==
  \A c \in Conns, w \in Webhooks :
    (rxPc[c] = "lock" /\ appLock = Wh(w)) =>
      frame[c].payment_intent_id = EventOf(w).id

\* C17: the teardown of a session changes only the rows that carry the
\* session's own connection id: every row of another connection is the same
\* after it as before (and so a session without rows changes none).
C17_TeardownOwnRowsOnly ==
  [][\A c \in Conns :
       (session[c] = "Open" /\ session'[c] = "Closed") =>
         /\ Len(websocket_connections') = Len(websocket_connections)
         /\ \A i \in 1..Len(websocket_connections) :
              websocket_connections[i].connection_id # connection_id(c) =>
                websocket_connections'[i] = websocket_connections[i]]_vars

\* C18: no task waits for the AppState lock while a guard of its own on
\* that lock is alive.
C18_NoSelfDeadlock ==
  \A w \in Webhooks : ~(pc[w] = "await_lock" /\ appLock = Wh(w))

\* C19: the connection ids a dispatch resolves for an event on a payment
\* intent are exactly those of the rows that, when the query runs, carry that
\* payment intent, are active and, if the event names a frontend_id, carry
\* it as customer_id (a row without customer_id is then left out); without
\* a frontend_id all active rows of the payment intent are resolved. A
\* lookup that could not be carried out resolves nothing, and nothing but
\* the lookup sets the target set.
C19_TargetSet ==
  [][\A w \in Webhooks :
       IF pc[w] = "notify" /\ pc'[w] # "notify"
         THEN \/ targets'[w] = <<>>
              \/ Range(targets'[w]) =
                   {websocket_connections[i].connection_id :
                      i \in {j \in 1..Len(websocket_connections) :
                        /\ websocket_connections[j].payment_intent_id =
                             EventOf(w).id
                        /\ websocket_connections[j].status = "active"
                        /\ \/ EventOf(w).frontend_id = None
                           \/ websocket_connections[j].customer_id =
                                EventOf(w).frontend_id}}
         ELSE targets'[w] = targets[w]]_vars

\* C19 witness: a dispatch for an event that names the identity of
\* connection 1 has resolved connection 1 alone, while connection 2 holds
\* an active row for the same payment intent under another identity.
C19_Witness ==
  \E w \in Webhooks :
    /\ pc[w] = "await_lock"
    /\ EventOf(w).frontend_id = Identity(1)
    /\ targets[w] = <<connection_id(1)>>
    /\ \E i \in 1..Len(websocket_connections) :
         /\ websocket_connections[i].connection_id = connection_id(2)
         /\ websocket_connections[i].payment_intent_id = EventOf(w).id
         /\ websocket_connections[i].status = "active"

\* C20: a well-formed subscribe frame that a session has read leads to its
\* confirmation being put on the connection's channel, unless the session is
\* closed first: while the session is Open the handling of the frame is
\* never stuck, that is, receive_task can take its next step, or it waits
\* for the AppState lock and the task that holds the lock can take a step.
C20_ConfirmationEventually ==
  \A c \in Conns :
    (session[c] = "Open" /\ rxPc[c] \in {"lock", "insert", "confirm"}) =>
      \/ ENABLED ReceiveTask(c)
      \/ \E w \in Webhooks : appLock = Wh(w) /\ ENABLED Webhook(w)

\* C21: a session whose socket is closed by the peer, whose read fails or
\* whose write fails reaches Closed and issues its teardown update, whatever
\* the webhook calls and the other sessions do: an Open session is never cut
\* off from the end of its socket, that is, one of its tasks or its teardown
\* can take a step (receive_task is at receiver.next() or on its way back to
\* it, send_task has a message to write, or a task has ended), or it waits
\* for the AppState lock and the task that holds the lock can take a step.
C21_ClosureReachesTeardown ==
  \A c \in Conns :
    session[c] = "Open" =>
      \/ ENABLED (ReceiveTask(c) \/ SendTask(c) \/ Teardown(c))
      \/ \E w \in Webhooks : appLock = Wh(w) /\ ENABLED Webhook(w)

\* C22: a teardown whose update failed (no connection, or the update
\* returned an error) is logged and nothing else. The step that closes a
\* session has one of two outcomes for the table: the update was carried
\* out (every row it changed went from active to inactive), or it failed
\* and the table is as it was; the session is Closed in both. A Closed
\* session is never Open again, and the update is not tried again: after
\* the closing step no step changes a row unless it closes a session.
C22_TeardownFailureLogged ==
  [][/\ \A c \in Conns : session[c] = "Closed" => session'[c] = "Closed"
     /\ (\E c \in Conns : session[c] = "Open" /\ session'[c] = "Closed") =>
          \/ websocket_connections' = websocket_connections
          \/ /\ websocket_connections' # websocket_connections
             /\ Len(websocket_connections') = Len(websocket_connections)
             /\ \A i \in 1..Len(websocket_connections) :
                  websocket_connections'[i] =
                    [websocket_connections[i] EXCEPT !.status = "inactive"]
     /\ (\A c \in Conns : session'[c] = session[c]) =>
          IsPrefix(websocket_connections, websocket_connections')]_vars

\* C22 witness: a session that had inserted its row and confirmed the
\* subscription is Closed after a cleanup that failed: its row is still
\* active, and every task of the session has ended.
C22_Witness ==
  \E c \in Conns :
    /\ session[c] = "Closed"
    /\ rxPc[c] = "done" /\ txPc[c] = "done"
    /\ ConfirmationsOf(c) # <<>>
    /\ Len(RowsOf(websocket_connections, c)) = 1
    /\ RowsOf(websocket_connections, c)[1].status = "active"

\* the payment_updates of call w put on connection c's channel so far
UpdatesOf(c, w) == SelectSeq(enqueued[c], LAMBDA m : m = UpdateOf(w))

\* the subscribe frames for payment intent pid that connection c has
\* handled to the end
SubscribesDone(c, pid) ==
  Len(SelectSeq(ConfirmationsOf(c), LAMBDA m : m.payment_intent_id = pid))

\* C23: repeated subscription is idempotent for delivery: when a connection
\* has handled two subscribe frames for one payment intent (it is registered
\* once, and holds two active rows), a dispatch of a verified event for that
\* payment intent whose lookup found both rows ends with exactly one more
\* payment_update on the connection's channel.
C23_RepeatedSubscribeOneUpdate ==
  [][\A w \in Webhooks, c \in Conns :
       (/\ pc[w] = "notify" /\ pc'[w] # "notify"
        /\ EventOf(w).frontend_id = None
        /\ rxPc[c] = "next"
        /\ Subscribed(c, EventOf(w).id)
        /\ SubscribesDone(c, EventOf(w).id) = 2
        /\ targets'[w] = <<connection_id(c), connection_id(c)>>)
         => Len(UpdatesOf(c, w)') = Len(UpdatesOf(c, w)) + 1]_vars

C25_TransactionIsolation ==
  [][\A c \in Conns :
       enqueued'[c] # enqueued[c] =>
         /\ Len(enqueued'[c]) = Len(enqueued[c]) + 1
         /\ IsPrefix(enqueued[c], enqueued'[c])
         /\ LET m == enqueued'[c][Len(enqueued'[c])] IN
              \/ /\ m.type = "subscription_confirmed"
                 /\ rxPc[c] = "confirm"
                 /\ frame[c].payment_intent_id = m.payment_intent_id
              \/ /\ m.type = "payment_update"
                 /\ <<m.payment_intent_id, c>> \in registry
                 /\ \E w \in Webhooks :
                      pc[w] = "notify" /\ m = UpdateOf(w)]_vars

\* C25 witness: the dispatch of a verified event on pi_A has ended while one
\* connection holds a confirmed, active subscription to pi_B only and the
\* other has sent no subscribe frame: the first has its confirmation alone on
\* its channel, the second nothing.
C25_Witness ==
  \E w \in Webhooks, c \in Conns, d \in Conns :
    /\ pc[w] = "done" /\ resp[w] = OK /\ queried[w]
    /\ EventOf(w).id = "pi_A"
    /\ Subscribed(c, "pi_B")
    /\ <<"pi_A", c>> \notin registry
    /\ enqueued[c] = <<Confirmation("pi_B")>>
    /\ d # c
    /\ rxPc[d] = "next" /\ session[d] = "Open"
    /\ \A p \in PaymentIntentIds : <<p, d>> \notin registry
    /\ RowsOf(websocket_connections, d) = <<>>
    /\ enqueued[d] = <<>>

\* C26: the subscription is confirmed also when its row could not be
\* inserted: receive_task leaves the insert for the confirmation whatever the
\* insert came to, an insert that added no row has left the table as it was
\* and the session as it was, and the confirmation step puts the
\* subscription_confirmed of the frame on the channel whenever the channel
\* is still open, whether the connection has a row or not.
C26_ConfirmedDespiteInsertFailure ==
  [][\A c \in Conns :
       /\ (rxPc[c] = "insert" /\ rxPc'[c] # "insert") =>
            /\ rxPc'[c] = "confirm"
            /\ frame'[c] = frame[c]
            /\ session'[c] = session[c]
            /\ enqueued' = enqueued
            /\ Len(websocket_connections') = Len(websocket_connections) =>
                 websocket_connections' = websocket_connections
       /\ (rxPc[c] = "confirm" /\ rxPc'[c] # "confirm") =>
            /\ session'[c] = session[c]
            /\ websocket_connections' = websocket_connections
            /\ IF ReceiverAlive(txPc, c)
                 THEN /\ rxPc'[c] = "next"
                      /\ enqueued'[c] =
                           Append(enqueued[c],
                                  Confirmation(frame[c].payment_intent_id))
                 ELSE /\ rxPc'[c] = "done"
                      /\ enqueued'[c] = enqueued[c]]_vars

\* C26 witness: a session whose insert failed (it has no row) has its
\* confirmation on its channel, is Open and is ready for the next frame.
C26_Witness ==
  \E c \in Conns, p \in PaymentIntentIds :
    /\ session[c] = "Open"
    /\ rxPc[c] = "next"
    /\ <<p, c>> \in registry
    /\ RowsOf(websocket_connections, c) = <<>>
    /\ ConfirmationsOf(c) = <<Confirmation(p)>>

====
